---- MODULE Spec2Model ----
(***************************************************************************)
(* A model of download_ssrn_papers.py: the batch orchestrator (main), the  *)
(* retry loop (download_pdf), the page-scrape fallback                     *)
(* (download_from_page) and the helpers they use.                          *)
(*                                                                         *)
(* Strings are sequences of tokens.  The remote service is the             *)
(* environment: every GET draws its outcome nondeterministically.  The     *)
(* working directory (output files, failure log, input file) outlives a    *)
(* run, so the program can be started again on what the last run left.     *)
(***************************************************************************)
EXTENDS Integers, Sequences, FiniteSets, TLC

\* ---- bounds of the model ------------------------------------------------
MaxUrls == 2          \* longest input list of a single run
MaxUrlsRerun == 1     \* longest input list when the script is run again and again
MaxSize == 1          \* largest body / file size, in bytes
MaxUrlLen == 6        \* longest URL string given to extract_abstract_id alone

\* ---- program constants --------------------------------------------------
MAX_RETRIES == 3
DELAY_BETWEEN_REQUESTS == 1
RETRY_SLEEP == 2

\* Python's None (also the value of an absent identifier or error message).
None == <<>>

\* ---- strings ------------------------------------------------------------
Digits == {"1", "2"}

\* The literal 'abstract_id=' of the pattern, abbreviated to two characters.
KeyLit == <<"a", "=">>

StartsWith(s, prefix) ==
    /\ Len(prefix) <= Len(s)
    /\ SubSeq(s, 1, Len(prefix)) = prefix

EndsWith(s, suffix) ==
    /\ Len(suffix) <= Len(s)
    /\ SubSeq(s, Len(s) - Len(suffix) + 1, Len(s)) = suffix

\* The longest run of digits of url that starts at position p: (\d+), greedy.
RECURSIVE DigitRun(_, _)
DigitRun(url, p) ==
    IF p <= Len(url) /\ url[p] \in Digits
    THEN <<url[p]>> \o DigitRun(url, p + 1)
    ELSE <<>>

\* re.search(r'abstract_id=(\d+)', url) matches at position p.
MatchAt(url, p) ==
    /\ p + Len(KeyLit) <= Len(url)
    /\ SubSeq(url, p, p + Len(KeyLit) - 1) = KeyLit
    /\ url[p + Len(KeyLit)] \in Digits

\* A variant that takes the last match of the pattern, not the first.
ExtractLastMatch(url) ==
    LET ms == {p \in 1..Len(url) : MatchAt(url, p)}
    IN  IF ms = {} THEN None
        ELSE LET last == CHOOSE p \in ms : \A q \in ms : p >= q
             IN  DigitRun(url, last + Len(KeyLit))

extract_abstract_id(url) ==
    LET ms == {p \in 1..Len(url) : MatchAt(url, p)}
    IN  IF ms = {} THEN None
        ELSE LET first == CHOOSE p \in ms : \A q \in ms : p <= q
             IN  DigitRun(url, first + Len(KeyLit))

get_download_url(abstract_id) ==
    <<"https://papers.ssrn.com/sol3", "/Delivery.cfm/">> \o abstract_id
        \o <<".pdf", "?abstractid=">> \o abstract_id \o <<"&mirid=1">>

page_url(abstract_id) ==
    <<"https://papers.ssrn.com/sol3", "/papers.cfm?abstract_id=">> \o abstract_id

output_path(abstract_id) == <<"ssrn_papers", "/">> \o abstract_id \o <<".pdf">>

\* ---- the input -----------------------------------------------------------
UrlPool ==
    { <<"a", "=", "1", "2">>,                   \* identifier 12
      <<"x", "a", "=", "1", "2", "&", "a", "=", "1">>,
                                                \* two matches: the first wins, 12
      <<"a", "=", "x", "1">> }                  \* no identifier

RECURSIVE SeqsUpTo(_, _)
SeqsUpTo(S, n) ==
    IF n = 0 THEN {<<>>}
    ELSE LET shorter == SeqsUpTo(S, n - 1)
         IN  shorter \cup {Append(s, x) : s \in shorter, x \in S}

Ids == {extract_abstract_id(u) : u \in UrlPool} \ {None}
Paths == {output_path(id) : id \in Ids}
Sizes == 0..MaxSize

\* ---- the file system -----------------------------------------------------
\* A directory is a function from the paths that exist to their sizes.
WriteFile(fs, p, n) == [q \in DOMAIN fs \cup {p} |-> IF q = p THEN n ELSE fs[q]]
Unlink(fs, p) == [q \in DOMAIN fs \ {p} |-> fs[q]]
PathExists(fs, p) == p \in DOMAIN fs
EmptyDirectory == [p \in {} |-> 0]
Directories == UNION {[D -> Sizes] : D \in SUBSET Paths}

\* ---- results and error messages ------------------------------------------
\* A (success_flag, error_message) pair.  str(e) of an exception is the one
\* token "{e}": the text of a library exception is not modelled.
Ok == [ok |-> TRUE, err |-> None]
Fail(msg) == [ok |-> FALSE, err |-> msg]

ErrNoId == <<"Unable to extract abstract_id from URL">>
ErrDirectEmpty == <<"File size is 0">>
ErrPageEmpty == <<"File downloaded from page has size 0">>
ErrNoLink == <<"Unable to find download link in page">>
ErrUnknown == <<"Unknown error">>
ErrCombined(page_err) ==
    <<"Direct download failed: ", "{e}", "; Page parsing also failed: ">> \o page_err
ErrAllRetries == <<"All retry attempts failed: ", "{e}">>

\* ---- exceptions -----------------------------------------------------------
\* What a GET can raise: a transport failure, or raise_for_status() on a
\* non-success status.
Raised == {"ConnectionError", "HTTPError"}

\* A variant that catches transport failures only.
IsConnectionError(e) == e \in {"ConnectionError", "Timeout"}

\* except requests.exceptions.RequestException
IsRequestException(e) == e \in {"ConnectionError", "HTTPError", "Timeout"}

\* The two except clauses of download_from_page: nothing escapes it.
PageError(e) ==
    IF IsRequestException(e)
    THEN Fail(<<"Page request failed: ", "{e}">>)
    ELSE Fail(<<"Download from page failed: ", "{e}">>)

\* ---- responses ------------------------------------------------------------
ContentTypes ==
    { <<"application/", "pdf">>, <<"Application/", "PDF">>, <<"text/", "html">>, <<>> }

Lower(tok) ==
    CASE tok = "PDF" -> "pdf"
      [] tok = "Application/" -> "application/"
      [] OTHER -> tok

\* 'pdf' not in content_type.lower() and not url.endswith('.pdf')
NotPdf(content_type, url) ==
    /\ ~ \E k \in 1..Len(content_type) : Lower(content_type[k]) = "pdf"
    /\ ~ EndsWith(url, <<".pdf">>)

\* A variant that forgets the size check: whatever was written is a success.
DirectSavedUnchecked(file_size) == Ok

\* A variant whose size check asks for more than one byte.
DirectSavedOverOne(file_size) == IF file_size > 1 THEN Ok ELSE Fail(ErrDirectEmpty)

\* The size check after the direct download has been written.
DirectSaved(file_size) == IF file_size > 0 THEN Ok ELSE Fail(ErrDirectEmpty)

\* The size check after the download from the page has been written.
PageSaved(file_size) == IF file_size > 0 THEN Ok ELSE Fail(ErrPageEmpty)

\* ---- the landing page -----------------------------------------------------
\* What soup.find gives for each of the three searches: no anchor, an anchor
\* without (or with an empty) href, or an anchor with an href.  The three
\* anchors of a page carry different hrefs, one of each form ResolveLink knows.
HrefByDataId == <<"/", "sol3/Delivery.cfm/p.pdf">>
HrefByText == <<"Delivery.cfm", "/p.pdf">>
HrefByClass == <<"https://cdn.example", "/p.pdf">>

NoAnchor == [found |-> FALSE, href |-> None]
Anchor(href) == [found |-> TRUE, href |-> href]

Pages ==
    [by_data_id : {NoAnchor, Anchor(None), Anchor(HrefByDataId)},
     by_text    : {NoAnchor, Anchor(None), Anchor(HrefByText)},
     by_class   : {NoAnchor, Anchor(None), Anchor(HrefByClass)}]

\* The pages with no anchor at all or with the one anchor of one heuristic:
\* one page for each outcome of the search.
PagesOneLink ==
    {page \in Pages :
        /\ Cardinality({h \in {"by_data_id", "by_text", "by_class"} : page[h].found}) <= 1
        /\ \A h \in {"by_data_id", "by_text", "by_class"} : page[h] # Anchor(None)}

\* if link and link.get('href')
Usable(link) == link.found /\ link.href # None

\* A variant that looks for the anchor by its text first.
FindDownloadLinkTextFirst(page) ==
    IF Usable(page.by_text) THEN page.by_text.href
    ELSE IF Usable(page.by_data_id) THEN page.by_data_id.href
    ELSE IF Usable(page.by_class) THEN page.by_class.href
    ELSE None

FindDownloadLink(page) ==
    IF Usable(page.by_data_id) THEN page.by_data_id.href
    ELSE IF Usable(page.by_text) THEN page.by_text.href
    ELSE IF Usable(page.by_class) THEN page.by_class.href
    ELSE None

ResolveLink(download_link) ==
    IF StartsWith(download_link, <<"/">>)
    THEN <<"https://papers.ssrn.com">> \o download_link
    ELSE IF StartsWith(download_link, <<"Delivery.cfm">>)
    THEN <<"https://papers.ssrn.com/sol3/">> \o download_link
    ELSE download_link

\* ---- the failure log -------------------------------------------------------
FailureRecord(url, abstract_id, error_msg) ==
    [url |-> url, abstract_id |-> abstract_id, error |-> error_msg]

\* json.dump of a list: "[", the objects separated by ",", "]".
RECURSIVE JsonItems(_)
JsonItems(records) ==
    IF records = <<>> THEN <<>>
    ELSE IF Len(records) = 1 THEN <<[t |-> "object", v |-> <<records[1]>>]>>
    ELSE <<[t |-> "object", v |-> <<records[1]>>], [t |-> ",", v |-> <<>>]>>
             \o JsonItems(Tail(records))

json_dump(records) ==
    <<[t |-> "[", v |-> <<>>]>> \o JsonItems(records) \o <<[t |-> "]", v |-> <<>>]>>

\* json.load of such a text: the objects of the array, in order.
RECURSIVE JsonObjects(_)
JsonObjects(text) ==
    IF text = <<>> THEN <<>>
    ELSE IF Head(text).t = "object" THEN Head(text).v \o JsonObjects(Tail(text))
    ELSE JsonObjects(Tail(text))

json_load(text) == JsonObjects(text)

NoLog == [exists |-> FALSE, text |-> <<>>]

\* ---- state -------------------------------------------------------------------
VARIABLES
    input_file,        \* ruotong.json: whether it exists, and the list it holds
    files,             \* the output directory: path -> size
    log_file,          \* failed_downloads.json: whether it exists, and its text
    pc,                \* where the process is
    urls, i,           \* main: the list read, and the 1-based loop index
    success_count, fail_count, skip_count, failed_downloads,
    abstract_id,       \* main: the identifier of the item being downloaded
    attempt,           \* download_pdf: the loop variable
    last_error,        \* download_pdf: the last exception caught
    call_site,         \* which call of download_from_page is running
    download_url,      \* download_from_page: the resolved link
    page_result,       \* what download_from_page returned for this item
    result,            \* what download_pdf returned for this item
    trace,             \* the GETs and sleeps of the item in progress
    response,          \* what the last GET of the item in progress met
    downloaded         \* the paths a download counted as a success has written

vars ==
    <<input_file, files, log_file, pc, urls, i, success_count, fail_count,
      skip_count, failed_downloads, abstract_id, attempt, last_error, call_site,
      download_url, page_result, result, trace, response, downloaded>>

counters == <<success_count, fail_count, skip_count, failed_downloads>>
disk == <<input_file, files, log_file>>
locals ==
    <<abstract_id, attempt, last_error, call_site, download_url, page_result, result,
      response>>

NoResult == [ok |-> FALSE, err |-> None]

Get(url) == [op |-> "GET", url |-> url, secs |-> 0]
Sleep(secs) == [op |-> "sleep", url |-> <<>>, secs |-> secs]

\* What a GET met: it raised before any body was read, the response was no
\* PDF, the body was written whole (size bytes), the stream broke after size
\* bytes, or the landing page was read and parsed.
NoPage == [by_data_id |-> NoAnchor, by_text |-> NoAnchor, by_class |-> NoAnchor]
NoResponse == [kind |-> "none", size |-> 0, page |-> NoPage]
RaisedResponse == [kind |-> "raised", size |-> 0, page |-> NoPage]
NotPdfResponse == [kind |-> "not_pdf", size |-> 0, page |-> NoPage]
SavedResponse(n) == [kind |-> "saved", size |-> n, page |-> NoPage]
BrokenResponse(n) == [kind |-> "broken", size |-> n, page |-> NoPage]
PageResponse(page) == [kind |-> "page", size |-> 0, page |-> page]

\* The process before main runs.
Started ==
    /\ pc = "start"
    /\ urls = <<>>
    /\ i = 0
    /\ success_count = 0
    /\ fail_count = 0
    /\ skip_count = 0
    /\ failed_downloads = <<>>
    /\ abstract_id = None
    /\ attempt = 0
    /\ last_error = None
    /\ call_site = "none"
    /\ download_url = None
    /\ page_result = NoResult
    /\ result = NoResult
    /\ trace = <<>>
    /\ response = NoResponse

InputFiles(n) ==
    {[exists |-> FALSE, urls |-> <<>>]}
        \cup {[exists |-> TRUE, urls |-> l] : l \in SeqsUpTo(UrlPool, n)}

\* One run: any output files may be there already, there is no failure log
\* yet, and the input file may be missing.
Init ==
    /\ input_file \in InputFiles(MaxUrls)
    /\ files \in Directories
    /\ log_file = NoLog
    /\ downloaded = {}
    /\ Started

\* Run after run, from a fresh working directory.
InitRuns ==
    /\ input_file \in InputFiles(MaxUrlsRerun)
    /\ files = EmptyDirectory
    /\ log_file = NoLog
    /\ downloaded = {}
    /\ Started

\* ---- main: start-up ---------------------------------------------------------
\* A variant that takes a missing input file for an empty list.
InputMissingAsEmpty ==
    /\ pc = "start"
    /\ ~ input_file.exists
    /\ urls' = <<>>
    /\ i' = 1
    /\ pc' = "loop"
    /\ UNCHANGED <<downloaded, disk, counters, locals, trace>>

\* if not json_path.exists(): return
InputMissing ==
    /\ pc = "start"
    /\ ~ input_file.exists
    /\ pc' = "done"
    /\ UNCHANGED <<downloaded, disk, urls, i, counters, locals, trace>>

\* json.load, mkdir, the statistics set to zero, the loop entered.
ReadInput ==
    /\ pc = "start"
    /\ input_file.exists
    /\ urls' = input_file.urls
    /\ i' = 1
    /\ success_count' = 0
    /\ fail_count' = 0
    /\ skip_count' = 0
    /\ failed_downloads' = <<>>
    /\ pc' = "loop"
    /\ UNCHANGED <<downloaded, disk, locals, trace>>

\* ---- main: one item ----------------------------------------------------------
\* A variant that looks for the destination under the name without ".pdf".
DestinationExistsNoSuffix(fs, id) == PathExists(fs, <<"ssrn_papers", "/">> \o id)

\* A variant that validates the existing file again: an empty one does not count.
DestinationNonEmpty(fs, id) ==
    PathExists(fs, output_path(id)) /\ fs[output_path(id)] > 0

\* output_path.exists()
DestinationExists(fs, id) == PathExists(fs, output_path(id))

\* A variant that counts the failure of a URL without identifier and records nothing.
ItemNoIdUnrecorded ==
    /\ pc = "loop"
    /\ i <= Len(urls)
    /\ extract_abstract_id(urls[i]) = None
    /\ fail_count' = fail_count + 1
    /\ i' = i + 1
    /\ trace' = <<>>
    /\ UNCHANGED <<downloaded, disk, pc, urls, success_count, skip_count,
                   failed_downloads, locals>>

\* A variant without the continue: the failure is recorded and the download
\* of the same item is started all the same.
ItemNoIdFallsThrough ==
    /\ pc = "loop"
    /\ i <= Len(urls)
    /\ extract_abstract_id(urls[i]) = None
    /\ fail_count' = fail_count + 1
    /\ failed_downloads' = Append(failed_downloads, FailureRecord(urls[i], None, ErrNoId))
    /\ trace' = <<>>
    /\ pc' = "direct"
    /\ UNCHANGED <<downloaded, disk, urls, i, success_count, skip_count, locals>>

\* No identifier in the URL: a failure record, and on to the next item.
ItemNoId ==
    /\ pc = "loop"
    /\ i <= Len(urls)
    /\ extract_abstract_id(urls[i]) = None
    /\ fail_count' = fail_count + 1
    /\ failed_downloads' = Append(failed_downloads, FailureRecord(urls[i], None, ErrNoId))
    /\ i' = i + 1
    /\ trace' = <<>>
    /\ UNCHANGED <<downloaded, disk, pc, urls, success_count, skip_count, locals>>

\* A variant that skips the item without counting it.
ItemSkipUncounted ==
    /\ pc = "loop"
    /\ i <= Len(urls)
    /\ extract_abstract_id(urls[i]) # None
    /\ PathExists(files, output_path(extract_abstract_id(urls[i])))
    /\ i' = i + 1
    /\ trace' = <<>>
    /\ UNCHANGED <<downloaded, disk, pc, urls, counters, locals>>

\* The destination exists: the item is skipped.
ItemSkip ==
    /\ pc = "loop"
    /\ i <= Len(urls)
    /\ extract_abstract_id(urls[i]) # None
    /\ DestinationExists(files, extract_abstract_id(urls[i]))
    /\ skip_count' = skip_count + 1
    /\ i' = i + 1
    /\ trace' = <<>>
    /\ UNCHANGED <<downloaded, disk, pc, urls, success_count, fail_count, failed_downloads, locals>>

\* Otherwise download_pdf is called on the direct URL.
ItemBegin ==
    /\ pc = "loop"
    /\ i <= Len(urls)
    /\ extract_abstract_id(urls[i]) # None
    /\ ~ DestinationExists(files, extract_abstract_id(urls[i]))
    /\ abstract_id' = extract_abstract_id(urls[i])
    /\ attempt' = 0
    /\ last_error' = None
    /\ trace' = <<>>
    /\ response' = NoResponse
    /\ pc' = "direct"
    /\ UNCHANGED <<downloaded, disk, urls, i, counters, call_site, download_url,
                   page_result, result>>

\* ---- download_pdf -------------------------------------------------------------
\* A variant that gives up retrying one attempt early.
RetryAgainOneLess(att) == att < MAX_RETRIES - 2

\* A variant that sleeps and goes on after the last attempt as well.
RetryAgainAlways(att) == att < MAX_RETRIES

\* if attempt < MAX_RETRIES - 1
RetryAgain(att) == att < MAX_RETRIES - 1

\* A variant that, after a content-type mismatch, goes on with the loop when
\* the fallback failed instead of returning its failure.
AfterFallbackRetry(site, r) ==
    [return |-> site = "except" \/ r.ok,
     result |-> IF site = "except" /\ ~ r.ok THEN Fail(ErrCombined(r.err)) ELSE r]

\* A variant that rewords the failure of the fallback at both call sites.
AfterFallbackReworded(site, r) ==
    [return |-> TRUE,
     result |-> IF ~ r.ok THEN Fail(ErrCombined(r.err)) ELSE r]

\* What download_pdf does with the pair download_from_page returned: at both
\* call sites it returns; after the last failed attempt a failure is reworded.
AfterFallback(site, r) ==
    [return |-> TRUE,
     result |-> IF site = "except" /\ ~ r.ok THEN Fail(ErrCombined(r.err)) ELSE r]

\* The for loop goes on to its next iteration, or ends and falls to the last
\* return of download_pdf.
NextAttempt ==
    IF attempt + 1 < MAX_RETRIES
    THEN /\ attempt' = attempt + 1
         /\ pc' = "direct"
         /\ UNCHANGED result
    ELSE /\ result' = Fail(ErrAllRetries)
         /\ pc' = "returned"
         /\ UNCHANGED attempt

\* The except clause of download_pdf, for an exception e of the direct GET.
Except(e) ==
    IF ~ IsRequestException(e)
    THEN /\ pc' = "crashed"
         /\ UNCHANGED <<last_error, call_site>>
    ELSE /\ last_error' = <<e>>
         /\ IF RetryAgain(attempt)
            THEN pc' = "backoff" /\ UNCHANGED call_site
            ELSE pc' = "page" /\ call_site' = "except"

\* requests.get or raise_for_status raises: nothing is written.
DirectRaises ==
    /\ pc = "direct"
    /\ \E e \in Raised : Except(e)
    /\ response' = RaisedResponse
    /\ trace' = Append(trace, Get(get_download_url(abstract_id)))
    /\ UNCHANGED <<downloaded, disk, urls, i, counters, abstract_id, attempt, download_url,
                   page_result, result>>

\* The response is not a PDF: download_from_page is called and its pair returned.
DirectNotPdf ==
    /\ pc = "direct"
    /\ \E ct \in ContentTypes : NotPdf(ct, get_download_url(abstract_id))
    /\ trace' = Append(trace, Get(get_download_url(abstract_id)))
    /\ call_site' = "content_type"
    /\ response' = NotPdfResponse
    /\ pc' = "page"
    /\ UNCHANGED <<downloaded, disk, urls, i, counters, abstract_id, attempt, last_error,
                   download_url, page_result, result>>

\* A variant that raises on an empty file inside the try block instead of
\* returning, so that the except clause retries or falls back.
DirectSavesEmptyRaised ==
    /\ pc = "direct"
    /\ \E ct \in ContentTypes, n \in Sizes :
           /\ ~ NotPdf(ct, get_download_url(abstract_id))
           /\ files' = WriteFile(files, output_path(abstract_id), n)
           /\ response' = SavedResponse(n)
           /\ IF n > 0
              THEN /\ result' = Ok
                   /\ pc' = "returned"
                   /\ UNCHANGED <<last_error, call_site>>
              ELSE /\ Except("HTTPError")
                   /\ UNCHANGED result
    /\ trace' = Append(trace, Get(get_download_url(abstract_id)))
    /\ UNCHANGED <<downloaded, input_file, log_file, urls, i, counters, abstract_id, attempt,
                   download_url, page_result>>

\* The response is a PDF and its n bytes are written.
DirectSaves ==
    /\ pc = "direct"
    /\ \E ct \in ContentTypes, n \in Sizes :
           /\ ~ NotPdf(ct, get_download_url(abstract_id))
           /\ files' = WriteFile(files, output_path(abstract_id), n)
           /\ response' = SavedResponse(n)
           /\ result' = DirectSaved(n)
    /\ trace' = Append(trace, Get(get_download_url(abstract_id)))
    /\ pc' = "returned"
    /\ UNCHANGED <<downloaded, input_file, log_file, urls, i, counters, abstract_id, attempt,
                   last_error, call_site, download_url, page_result>>

\* The response is a PDF, the file is opened, and the stream breaks after n bytes.
DirectBreaks ==
    /\ pc = "direct"
    /\ \E ct \in ContentTypes, n \in Sizes, e \in Raised :
           /\ ~ NotPdf(ct, get_download_url(abstract_id))
           /\ files' = WriteFile(files, output_path(abstract_id), n)
           /\ response' = BrokenResponse(n)
           /\ Except(e)
    /\ trace' = Append(trace, Get(get_download_url(abstract_id)))
    /\ UNCHANGED <<downloaded, input_file, log_file, urls, i, counters, abstract_id, attempt,
                   download_url, page_result, result>>

\* time.sleep(2), then the next iteration.
Backoff ==
    /\ pc = "backoff"
    /\ trace' = Append(trace, Sleep(RETRY_SLEEP))
    /\ NextAttempt
    /\ UNCHANGED <<downloaded, disk, urls, i, counters, abstract_id, last_error, call_site,
                   download_url, page_result, response>>

\* ---- download_from_page --------------------------------------------------------
\* download_from_page returns r to download_pdf.
FallbackReturns(r) ==
    /\ page_result' = r
    /\ LET nx == AfterFallback(call_site, r)
       IN  IF nx.return
           THEN result' = nx.result /\ pc' = "returned" /\ UNCHANGED attempt
           ELSE NextAttempt

\* The GET of the landing page raises.
PageRaises ==
    /\ pc = "page"
    /\ \E e \in Raised : FallbackReturns(PageError(e))
    /\ response' = RaisedResponse
    /\ trace' = Append(trace, Get(page_url(abstract_id)))
    /\ UNCHANGED <<downloaded, disk, urls, i, counters, abstract_id, last_error, call_site,
                   download_url>>

\* The landing page is parsed and none of the three searches gives a link.
PageNoLink(served) ==
    /\ pc = "page"
    /\ \E page \in served :
           /\ FindDownloadLink(page) = None
           /\ response' = PageResponse(page)
    /\ FallbackReturns(Fail(ErrNoLink))
    /\ trace' = Append(trace, Get(page_url(abstract_id)))
    /\ UNCHANGED <<downloaded, disk, urls, i, counters, abstract_id, last_error, call_site,
                   download_url>>

\* The landing page is parsed and a link is found and resolved.
PageLinkFound(served) ==
    /\ pc = "page"
    /\ \E page \in served :
           /\ FindDownloadLink(page) # None
           /\ response' = PageResponse(page)
           /\ download_url' = ResolveLink(FindDownloadLink(page))
    /\ trace' = Append(trace, Get(page_url(abstract_id)))
    /\ pc' = "link"
    /\ UNCHANGED <<downloaded, disk, urls, i, counters, abstract_id, attempt, last_error,
                   call_site, page_result, result>>

\* The GET of the resolved link raises: nothing is written.
LinkRaises ==
    /\ pc = "link"
    /\ \E e \in Raised : FallbackReturns(PageError(e))
    /\ response' = RaisedResponse
    /\ trace' = Append(trace, Get(download_url))
    /\ UNCHANGED <<downloaded, disk, urls, i, counters, abstract_id, last_error, call_site,
                   download_url>>

\* The body of the resolved link, n bytes, is written.
LinkSaves ==
    /\ pc = "link"
    /\ \E n \in Sizes :
           /\ files' = WriteFile(files, output_path(abstract_id), n)
           /\ response' = SavedResponse(n)
           /\ FallbackReturns(PageSaved(n))
    /\ trace' = Append(trace, Get(download_url))
    /\ UNCHANGED <<downloaded, input_file, log_file, urls, i, counters, abstract_id, last_error,
                   call_site, download_url>>

\* The file is opened and the stream of the resolved link breaks after n bytes.
LinkBreaks ==
    /\ pc = "link"
    /\ \E n \in Sizes, e \in Raised :
           /\ files' = WriteFile(files, output_path(abstract_id), n)
           /\ response' = BrokenResponse(n)
           /\ FallbackReturns(PageError(e))
    /\ trace' = Append(trace, Get(download_url))
    /\ UNCHANGED <<downloaded, input_file, log_file, urls, i, counters, abstract_id, last_error,
                   call_site, download_url>>

\* A variant that sleeps after the last item as well.
ToNextItemAlwaysSleeps ==
    /\ trace' = <<Sleep(DELAY_BETWEEN_REQUESTS)>>
    /\ i' = i + 1
    /\ pc' = "loop"
    /\ abstract_id' = None
    /\ attempt' = 0
    /\ last_error' = None
    /\ call_site' = "none"
    /\ download_url' = None
    /\ page_result' = NoResult
    /\ result' = NoResult
    /\ response' = NoResponse

\* ---- main: after download_pdf ----------------------------------------------------
\* if i < len(urls): time.sleep(DELAY_BETWEEN_REQUESTS); then the next item.
ToNextItem ==
    /\ trace' = IF i < Len(urls) THEN <<Sleep(DELAY_BETWEEN_REQUESTS)>> ELSE <<>>
    /\ i' = i + 1
    /\ pc' = "loop"
    /\ abstract_id' = None
    /\ attempt' = 0
    /\ last_error' = None
    /\ call_site' = "none"
    /\ download_url' = None
    /\ page_result' = NoResult
    /\ result' = NoResult
    /\ response' = NoResponse

\* if success: success_count += 1
ItemSuccess ==
    /\ pc = "returned"
    /\ result.ok
    /\ success_count' = success_count + 1
    /\ downloaded' = downloaded \cup {output_path(abstract_id)}
    /\ ToNextItem
    /\ UNCHANGED <<disk, urls, fail_count, skip_count, failed_downloads>>

\* A variant that leaves the file of a failed download where it is.
ItemFailureKeepsFile ==
    /\ pc = "returned"
    /\ ~ result.ok
    /\ fail_count' = fail_count + 1
    /\ failed_downloads' =
           Append(failed_downloads,
                  FailureRecord(urls[i], abstract_id,
                                IF result.err = None THEN ErrUnknown ELSE result.err))
    /\ ToNextItem
    /\ UNCHANGED <<downloaded, disk, urls, success_count, skip_count>>

\* A variant that puts the record of a failed download at the head of the list.
ItemFailurePrepends ==
    /\ pc = "returned"
    /\ ~ result.ok
    /\ fail_count' = fail_count + 1
    /\ files' = IF PathExists(files, output_path(abstract_id))
                THEN Unlink(files, output_path(abstract_id))
                ELSE files
    /\ failed_downloads' =
           <<FailureRecord(urls[i], abstract_id,
                           IF result.err = None THEN ErrUnknown ELSE result.err)>>
               \o failed_downloads
    /\ ToNextItem
    /\ UNCHANGED <<downloaded, input_file, log_file, urls, success_count, skip_count>>

\* else: the count, the file left behind deleted, the failure recorded.
ItemFailure ==
    /\ pc = "returned"
    /\ ~ result.ok
    /\ fail_count' = fail_count + 1
    /\ files' = IF PathExists(files, output_path(abstract_id))
                THEN Unlink(files, output_path(abstract_id))
                ELSE files
    /\ failed_downloads' =
           Append(failed_downloads,
                  FailureRecord(urls[i], abstract_id,
                                IF result.err = None THEN ErrUnknown ELSE result.err))
    /\ ToNextItem
    /\ UNCHANGED <<downloaded, input_file, log_file, urls, success_count, skip_count>>

\* ---- main: the end of the run ------------------------------------------------------
\* if failed_downloads: json.dump(failed_downloads, f); then the statistics.
Finish ==
    /\ pc = "loop"
    /\ i > Len(urls)
    /\ log_file' = IF failed_downloads # <<>>
                   THEN [exists |-> TRUE, text |-> json_dump(failed_downloads)]
                   ELSE log_file
    /\ pc' = "done"
    /\ trace' = <<>>
    /\ UNCHANGED <<downloaded, input_file, files, urls, i, counters, locals>>

\* ---- the environment ---------------------------------------------------------------
\* The script is started again in the same working directory.
Rerun ==
    /\ pc \in {"done", "crashed"}
    /\ pc' = "start"
    /\ urls' = <<>>
    /\ i' = 0
    /\ success_count' = 0
    /\ fail_count' = 0
    /\ skip_count' = 0
    /\ failed_downloads' = <<>>
    /\ abstract_id' = None
    /\ attempt' = 0
    /\ last_error' = None
    /\ call_site' = "none"
    /\ download_url' = None
    /\ page_result' = NoResult
    /\ result' = NoResult
    /\ trace' = <<>>
    /\ response' = NoResponse
    /\ UNCHANGED <<downloaded, disk>>

Next ==
    \/ InputMissing
    \/ ReadInput
    \/ ItemNoId
    \/ ItemSkip
    \/ ItemBegin
    \/ DirectRaises
    \/ DirectNotPdf
    \/ DirectSaves
    \/ DirectBreaks
    \/ Backoff
    \/ PageRaises
    \/ PageNoLink(PagesOneLink)
    \/ PageLinkFound(PagesOneLink)
    \/ LinkRaises
    \/ LinkSaves
    \/ LinkBreaks
    \/ ItemSuccess
    \/ ItemFailure
    \/ Finish

\* One run of the script.
Spec == Init /\ [][Next]_vars

\* One run of the script that is not stopped from outside: every statement,
\* every GET (timeout=30) and every sleep comes to an end, so a step that can
\* be taken is taken.
SpecFair == Spec /\ WF_vars(Next)

\* ---- one item, every landing page ------------------------------------------------
\* A list of one URL that has an identifier, in a fresh directory.
InitOneItem ==
    /\ input_file \in {f \in InputFiles(1) :
                          /\ f.exists
                          /\ Len(f.urls) = 1
                          /\ extract_abstract_id(f.urls[1]) # None}
    /\ files = EmptyDirectory
    /\ log_file = NoLog
    /\ downloaded = {}
    /\ Started

\* The steps of such a run; the landing page may be any page of Pages.
NextOneItem ==
    \/ ReadInput
    \/ ItemBegin
    \/ DirectRaises
    \/ DirectNotPdf
    \/ DirectSaves
    \/ DirectBreaks
    \/ Backoff
    \/ PageRaises
    \/ PageNoLink(Pages)
    \/ PageLinkFound(Pages)
    \/ LinkRaises
    \/ LinkSaves
    \/ LinkBreaks
    \/ ItemSuccess
    \/ ItemFailure
    \/ Finish

SpecOneItem == InitOneItem /\ [][NextOneItem]_vars

\* ---- extract_abstract_id on its own ----------------------------------------------
\* The characters of the URL strings: the two of the literal, the digits and
\* one character that is neither.
UrlChars == {"a", "=", "x"} \cup Digits
UrlStrings == SeqsUpTo(UrlChars, MaxUrlLen)

\* A list of one arbitrary URL string, before abstract_id = extract_abstract_id(url).
InitExtract ==
    /\ input_file \in {f \in InputFiles(0) : f.exists}
    /\ files = EmptyDirectory
    /\ log_file = NoLog
    /\ downloaded = {}
    /\ pc = "extract"
    /\ urls \in {<<u>> : u \in UrlStrings}
    /\ i = 1
    /\ success_count = 0
    /\ fail_count = 0
    /\ skip_count = 0
    /\ failed_downloads = <<>>
    /\ abstract_id = None
    /\ attempt = 0
    /\ last_error = None
    /\ call_site = "none"
    /\ download_url = None
    /\ page_result = NoResult
    /\ result = NoResult
    /\ trace = <<>>
    /\ response = NoResponse

\* abstract_id = extract_abstract_id(url)
Extract ==
    /\ pc = "extract"
    /\ abstract_id' = extract_abstract_id(urls[i])
    /\ pc' = "extracted"
    /\ UNCHANGED <<downloaded, disk, urls, i, counters, attempt, last_error, call_site,
                   download_url, page_result, result, trace, response>>

NextExtract == Extract

SpecExtract == InitExtract /\ [][NextExtract]_vars

NextRuns ==
    \/ Next
    \/ Rerun

\* Runs of the script one after another in the same working directory.
SpecRuns == InitRuns /\ [][NextRuns]_vars

\* ---- what the claims speak of ---------------------------------------------------------
IsGet(ev) == ev.op = "GET"
Gets(tr) == SelectSeq(tr, IsGet)
NoGet(tr) == Gets(tr) = <<>>

\* The item the loop is about to take up, and its destination.
AtItem == pc = "loop" /\ i <= Len(urls)
ItemId == extract_abstract_id(urls[i])
Downloading == pc \in {"direct", "backoff", "page", "link", "returned"}
Destination == output_path(abstract_id)
ZeroByte(fs, p) == PathExists(fs, p) /\ fs[p] = 0
NonEmpty(fs, p) == PathExists(fs, p) /\ fs[p] > 0

\* C1: a zero-byte file is never left behind as a successful download.  A
\* download that is about to be counted as a success has a destination file of
\* size > 0, and so has every file counted before; a download that wrote zero
\* bytes is counted as a failure and its file is gone when the item is left.
C1_ZeroByteNeverSuccess ==
    /\ [](pc = "returned" /\ result.ok => NonEmpty(files, Destination))
    /\ [](\A p \in downloaded : NonEmpty(files, p))
    /\ [][pc = "returned" =>
            /\ ~ ZeroByte(files', Destination)
            /\ ZeroByte(files, Destination) =>
                   /\ fail_count' = fail_count + 1
                   /\ success_count' = success_count
                   /\ ~ PathExists(files', Destination)]_vars

\* A run that wrote an empty file directly, failed that item, removed the file,
\* and then downloaded an item with success.
C1_Witness ==
    /\ pc = "done"
    /\ success_count = 1
    /\ fail_count = 1
    /\ failed_downloads[1].error = ErrDirectEmpty
    /\ \A p \in DOMAIN files : files[p] > 0

\* C2: when the destination of the item reached exists, the item is left in
\* that one step: no GET is made, the directory is as it was, and skip_count
\* alone goes up, by one.
C2_ExistingIsSkipped ==
    [][(AtItem /\ ItemId # None /\ PathExists(files, output_path(ItemId))) =>
          /\ pc' = "loop"
          /\ i' = i + 1
          /\ NoGet(trace')
          /\ files' = files
          /\ skip_count' = skip_count + 1
          /\ success_count' = success_count
          /\ fail_count' = fail_count
          /\ failed_downloads' = failed_downloads]_vars

\* An existing empty file has been skipped, untouched.
C2_Witness ==
    /\ pc = "loop"
    /\ i = 2
    /\ skip_count = 1
    /\ ZeroByte(files, output_path(extract_abstract_id(urls[1])))

\* C3: the three counters add up to the number of items processed, at every
\* point of the loop and so at the end of the run to the length of the list;
\* each item processed moves exactly one counter, by one.
C3_CountersAddUp ==
    /\ [](pc # "start" /\ input_file.exists =>
             success_count + fail_count + skip_count = i - 1)
    /\ [](pc = "done" =>
             success_count + fail_count + skip_count = Len(urls))
    /\ [][pc # "start" /\ i' = i + 1 =>
            \/ /\ success_count' = success_count + 1
               /\ fail_count' = fail_count /\ skip_count' = skip_count
            \/ /\ fail_count' = fail_count + 1
               /\ success_count' = success_count /\ skip_count' = skip_count
            \/ /\ skip_count' = skip_count + 1
               /\ success_count' = success_count /\ fail_count' = fail_count]_vars

\* A full run of the longest list that skipped one item and failed another.
C3_Witness ==
    /\ pc = "done"
    /\ Len(urls) = MaxUrls
    /\ skip_count >= 1
    /\ fail_count >= 1

\* The records the failure log holds; no log holds none.
LogRecords == IF log_file.exists THEN json_load(log_file.text) ELSE <<>>

IsJsonArray(text) ==
    /\ Len(text) >= 2
    /\ text[1].t = "["
    /\ text[Len(text)].t = "]"

\* C4: after each run that read its input, the failure log holds exactly the
\* records of the items that failed in that run.
C4_LogIsThisRun ==
    pc = "done" /\ input_file.exists => LogRecords = failed_downloads

\* C5: if the failure list is not empty at the end of a run, the failure log
\* exists and holds a JSON array of fail_count records.
C5_LogHoldsFailCount ==
    pc = "done" /\ failed_downloads # <<>> =>
        /\ log_file.exists
        /\ IsJsonArray(log_file.text)
        /\ Len(json_load(log_file.text)) = fail_count

\* A run ended with two failures: a URL without identifier and a failed download.
C5_Witness ==
    /\ pc = "done"
    /\ fail_count = 2
    /\ failed_downloads[1].abstract_id = None
    /\ failed_downloads[2].abstract_id # None
    /\ log_file.exists

\* C6: no failure of an item is fatal.  No exception leaves the item, a run
\* that has not ended can always take a step, a failed item adds one record for
\* its URL and one to fail_count and the loop moves to the next item, and a
\* run that ends has gone through the whole list.
C6_FailureIsNotFatal ==
    /\ [](pc # "crashed")
    /\ [](pc # "done" => ENABLED Next)
    /\ [](pc = "done" /\ input_file.exists => i = Len(urls) + 1)
    /\ [][((pc = "returned" /\ ~ result.ok) \/ (AtItem /\ ItemId = None)) =>
            /\ fail_count' = fail_count + 1
            /\ success_count' = success_count
            /\ skip_count' = skip_count
            /\ Len(failed_downloads') = Len(failed_downloads) + 1
            /\ SubSeq(failed_downloads', 1, Len(failed_downloads)) = failed_downloads
            /\ failed_downloads'[Len(failed_downloads')].url = urls[i]
            /\ i' = i + 1
            /\ pc' = "loop"]_vars

\* The first item failed on exceptions and a page without link, and the second
\* item was downloaded after it.
C6_Witness ==
    /\ pc = "done"
    /\ Len(urls) = 2
    /\ fail_count = 1
    /\ success_count = 1
    /\ failed_downloads[1].url = urls[1]
    /\ failed_downloads[1].error = ErrCombined(ErrNoLink)

\* C7: at most one GET of the landing page, that is one call of
\* download_from_page, is made for an item; none has been made when the call
\* begins.
PageGets ==
    Cardinality({k \in 1..Len(trace) : trace[k] = Get(page_url(abstract_id))})

C7_AtMostOneFallback ==
    /\ Downloading => PageGets <= 1
    /\ pc = "page" => PageGets = 0
    /\ ~ Downloading => NoGet(trace)

\* The fallback ran once, called for a content-type mismatch on the second
\* attempt, after the first attempt raised.
C7_Witness ==
    /\ pc = "returned"
    /\ call_site = "content_type"
    /\ attempt = 1
    /\ PageGets = 1
    /\ ~ result.ok

\* The direct GETs of n attempts that raised, with the sleep between them.
Retries(n) ==
    [k \in 1..(2 * n - 1) |->
        IF k % 2 = 1 THEN Get(get_download_url(abstract_id)) ELSE Sleep(2)]

PageGet == Get(page_url(abstract_id))
LinkGet == Get(download_url)

\* C8: when every direct GET raised, MAX_RETRIES direct GETs were made with a
\* sleep of 2 between consecutive ones and none after the last, then the
\* fallback ran once; the item fails only if the fallback failed, and then with
\* both descriptions.  A sleep is only taken while attempts remain, and the
\* loop never ends without the fallback.
C8_RetriesThenFallback ==
    /\ pc = "backoff" => attempt < MAX_RETRIES - 1
    /\ pc = "returned" => result.err # ErrAllRetries
    /\ call_site = "except" =>
           /\ pc \in {"page", "link", "returned"}
           /\ attempt = MAX_RETRIES - 1
           /\ pc = "page" => trace = Retries(MAX_RETRIES)
           /\ pc = "link" => trace = Retries(MAX_RETRIES) \o <<PageGet>>
           /\ pc = "returned" =>
                  /\ \/ trace = Retries(MAX_RETRIES) \o <<PageGet>>
                     \/ trace = Retries(MAX_RETRIES) \o <<PageGet, LinkGet>>
                  /\ result.ok = page_result.ok
                  /\ ~ result.ok => result.err = ErrCombined(page_result.err)

\* All three direct GETs raised, the fallback found a link, and the GET of the
\* link failed too.
C8_Witness ==
    /\ pc = "returned"
    /\ call_site = "except"
    /\ Len(trace) = 2 * MAX_RETRIES + 1
    /\ ~ result.ok

\* C9: after a direct GET whose response is not a PDF, the next request is the
\* GET of the landing page, then, when the page gives a link, the GET of the
\* resolved link; no direct GET follows, and download_pdf returns the very pair
\* download_from_page returned.
ResolvedLinks == {ResolveLink(h) : h \in {HrefByDataId, HrefByText, HrefByClass}}

C9_MismatchEscalates ==
    call_site = "content_type" =>
        /\ pc \in {"page", "link", "returned"}
        /\ pc = "page" => trace = Retries(attempt + 1)
        /\ pc = "link" =>
               /\ trace = Retries(attempt + 1) \o <<PageGet>>
               /\ download_url \in ResolvedLinks
        /\ pc = "returned" =>
               /\ result = page_result
               /\ IF download_url = None
                  THEN trace = Retries(attempt + 1) \o <<PageGet>> /\ ~ result.ok
                  ELSE /\ trace = Retries(attempt + 1) \o <<PageGet, LinkGet>>
                       /\ download_url \in ResolvedLinks

\* The first direct GET was no PDF, the page gave a link, and the link's body
\* was saved: three GETs, and a success.
C9_Witness ==
    /\ pc = "returned"
    /\ call_site = "content_type"
    /\ attempt = 0
    /\ Len(trace) = 3
    /\ result.ok

\* C10: a file written by a download counted as a success stays as it is, in
\* this run and in the runs after it: it is never missing or empty, no download
\* is in progress for it, no step changes it, and an item whose destination it
\* is is skipped in one step without a GET.
C10_DownloadedIsKept ==
    /\ [](\A p \in downloaded : NonEmpty(files, p))
    /\ [](Downloading => Destination \notin downloaded)
    /\ [][\A p \in downloaded : PathExists(files', p) /\ files'[p] = files[p]]_vars
    /\ [][(AtItem /\ ItemId # None /\ output_path(ItemId) \in downloaded) =>
            /\ pc' = "loop"
            /\ i' = i + 1
            /\ skip_count' = skip_count + 1
            /\ success_count' = success_count
            /\ fail_count' = fail_count
            /\ NoGet(trace')
            /\ files' = files]_vars

\* In a later run, an item was skipped whose file an earlier run had downloaded.
C10_Witness ==
    /\ pc = "done"
    /\ skip_count = 1
    /\ success_count = 0
    /\ downloaded # {}

\* C11: an item whose URL yields no identifier is settled in one step: a record
\* with the URL, no identifier and the message "Unable to extract abstract_id
\* from URL" is appended, the failure count grows by one and no other count
\* changes, no GET is made, no file and no log is touched, and the loop is at
\* the next item.
C11_NoIdIsRecordedAtOnce ==
    [][(AtItem /\ ItemId = None) =>
         /\ failed_downloads' =
                Append(failed_downloads,
                       [url |-> urls[i], abstract_id |-> None,
                        error |-> <<"Unable to extract abstract_id from URL">>])
         /\ fail_count' = fail_count + 1
         /\ success_count' = success_count
         /\ skip_count' = skip_count
         /\ NoGet(trace')
         /\ disk' = disk
         /\ pc' = "loop"
         /\ i' = i + 1]_vars

\* The first URL had no identifier and the second item was downloaded after it.
C11_Witness ==
    /\ pc = "done"
    /\ Len(urls) = 2
    /\ extract_abstract_id(urls[1]) = None
    /\ failed_downloads = <<FailureRecord(urls[1], None, ErrNoId)>>
    /\ fail_count = 1
    /\ success_count = 1

\* C12: when the input file is missing the run ends before anything is done: no
\* list is read, no item is reached, no count is set, no GET and no sleep are
\* made, and no step changes a file or the failure log.
C12_MissingInputAborts ==
    /\ [](~ input_file.exists =>
            /\ pc \in {"start", "done"}
            /\ urls = <<>>
            /\ i = 0
            /\ trace = <<>>
            /\ failed_downloads = <<>>
            /\ ~ log_file.exists)
    /\ [][~ input_file.exists => disk' = disk]_vars

\* The run is over and there was no input file.
C12_Witness == pc = "done" /\ ~ input_file.exists /\ files # EmptyDirectory

\* C13: when the first direct GET of an item whose destination does not exist
\* brings a PDF response with a body that is not empty, the body is written to
\* the destination and download_pdf returns success with that one GET of the
\* direct URL as the only event of the item: no sleep, no landing page.  The
\* item is then counted as a success, with no other GET and the file as written.
C13_FirstGetPdfSucceeds ==
    /\ [][(/\ pc = "direct"
           /\ attempt = 0
           /\ ~ PathExists(files, Destination)
           /\ response'.kind = "saved"
           /\ response'.size > 0) =>
            /\ trace' = <<Get(get_download_url(abstract_id))>>
            /\ files' = WriteFile(files, Destination, response'.size)
            /\ pc' = "returned"
            /\ result' = Ok]_vars
    /\ [][(/\ pc = "returned"
           /\ attempt = 0
           /\ call_site = "none"
           /\ response.kind = "saved"
           /\ response.size > 0) =>
            /\ trace = <<Get(get_download_url(abstract_id))>>
            /\ success_count' = success_count + 1
            /\ fail_count' = fail_count
            /\ skip_count' = skip_count
            /\ failed_downloads' = failed_downloads
            /\ NoGet(trace')
            /\ files' = files
            /\ NonEmpty(files', Destination)
            /\ i' = i + 1]_vars

\* The first direct GET of an item brought a PDF that is not empty, and
\* download_pdf has returned.
C13_Witness ==
    /\ pc = "returned"
    /\ attempt = 0
    /\ call_site = "none"
    /\ response.kind = "saved"
    /\ response.size > 0
    /\ result.ok
    /\ trace = <<Get(get_download_url(abstract_id))>>
    /\ NonEmpty(files, Destination)

\* C16: when a direct GET brings a PDF response and the file written from it
\* has size 0, download_pdf returns the failure "File size is 0" in that very
\* step: the attempt counter stays, no sleep and no landing page follow the
\* GET, and the next step is the failure of the item, made without a GET.
C16_EmptyDirectFileFailsAtOnce ==
    /\ [][(pc = "direct" /\ response'.kind = "saved" /\ response'.size = 0) =>
            /\ pc' = "returned"
            /\ result' = Fail(<<"File size is 0">>)
            /\ ZeroByte(files', Destination)
            /\ trace' = Append(trace, Get(get_download_url(abstract_id)))
            /\ attempt' = attempt
            /\ call_site' = "none"]_vars
    /\ [][(/\ pc = "returned"
           /\ call_site = "none"
           /\ response.kind = "saved"
           /\ response.size = 0) =>
            /\ trace = Retries(attempt + 1)
            /\ pc' = "loop"
            /\ NoGet(trace')
            /\ fail_count' = fail_count + 1
            /\ failed_downloads'[Len(failed_downloads')].error = <<"File size is 0">>]_vars

\* After one attempt that raised, the second direct GET brought an empty PDF
\* and the item failed with "File size is 0".
C16_Witness ==
    /\ pc = "returned"
    /\ attempt = 1
    /\ response = SavedResponse(0)
    /\ result = Fail(ErrDirectEmpty)
    /\ trace = Retries(2)

\* C14: extract_abstract_id returns the whole run of digits that follows the
\* first place of the URL where the parameter literal is followed by a digit,
\* and None when the URL has no such place.
FollowedByDigits(u, p, n) ==
    /\ p + 1 + n <= Len(u)
    /\ u[p] = "a"
    /\ u[p + 1] = "="
    /\ \A k \in 1..n : u[p + 1 + k] \in {"1", "2"}

C14_FirstIdentifierOrNone ==
    pc = "extracted" =>
        LET u == urls[1]
            places == {p \in 1..Len(u) : FollowedByDigits(u, p, 1)}
        IN  IF places = {}
            THEN abstract_id = None
            ELSE \E p \in places, n \in 1..Len(u) :
                    /\ \A q \in places : p <= q
                    /\ FollowedByDigits(u, p, n)
                    /\ ~ FollowedByDigits(u, p, n + 1)
                    /\ abstract_id = SubSeq(u, p + 2, p + 1 + n)

\* A URL with two identifiers gave the first.
C14_Witness ==
    /\ pc = "extracted"
    /\ urls[1] = <<"a", "=", "1", "a", "=", "2">>
    /\ abstract_id = <<"1">>

\* C15 as stated: every item that is not the last is followed by the sleep of
\* the inter-item delay, and the last item by none.
C15_SleepAfterEveryItem ==
    [][(pc \in {"loop", "returned"} /\ i' = i + 1) =>
         trace' = IF i < Len(urls) THEN <<Sleep(DELAY_BETWEEN_REQUESTS)>> ELSE <<>>]_vars

\* C15: an item for which download_pdf was called is followed by one sleep of
\* the inter-item delay unless it is the last of the list; an item that was
\* skipped or had no identifier is followed by no sleep; nothing is slept
\* after the last item.
C15_SleepAfterDownloadOnly ==
    /\ [][pc = "returned" =>
            /\ i' = i + 1
            /\ trace' = IF i < Len(urls) THEN <<Sleep(1)>> ELSE <<>>]_vars
    /\ [][(AtItem /\ i' = i + 1) => trace' = <<>>]_vars
    /\ []((pc = "loop" /\ i > Len(urls)) => trace = <<>>)
    /\ [](pc = "done" => trace = <<>>)

\* The first of two items was downloaded and the sleep was taken before the
\* second.
C15_Witness ==
    /\ pc = "loop"
    /\ i = 2
    /\ Len(urls) = 2
    /\ success_count + fail_count = 1
    /\ skip_count = 0
    /\ extract_abstract_id(urls[1]) # None
    /\ trace = <<Sleep(1)>>

\* C17: of the three anchors the searches of the landing page give, the link
\* is the href of the first, in the order data attribute, text, class, that
\* was found and has an href; it is resolved and fetched next.  When none was
\* found with an href, and only then, the fallback returns "Unable to find
\* download link in page", the GET of the landing page being the last GET of
\* the item.
HasLink(a) == a.found /\ a.href # <<>>

C17_FirstHeuristicWins ==
    /\ [][(pc = "page" /\ response'.kind = "page") =>
            LET a == response'.page.by_data_id
                b == response'.page.by_text
                c == response'.page.by_class
            IN  /\ trace' = Append(trace, PageGet)
                /\ HasLink(a) =>
                       pc' = "link" /\ download_url' = ResolveLink(a.href)
                /\ (~ HasLink(a) /\ HasLink(b)) =>
                       pc' = "link" /\ download_url' = ResolveLink(b.href)
                /\ (~ HasLink(a) /\ ~ HasLink(b) /\ HasLink(c)) =>
                       pc' = "link" /\ download_url' = ResolveLink(c.href)
                /\ (~ HasLink(a) /\ ~ HasLink(b) /\ ~ HasLink(c)) =>
                       /\ pc' = "returned"
                       /\ page_result' = Fail(<<"Unable to find download link in page">>)
                       /\ download_url' = None]_vars
    /\ []((pc = "returned" /\ page_result = Fail(ErrNoLink)) =>
            /\ response.kind = "page"
            /\ ~ HasLink(response.page.by_data_id)
            /\ ~ HasLink(response.page.by_text)
            /\ ~ HasLink(response.page.by_class)
            /\ trace = Retries(attempt + 1) \o <<PageGet>>)
    /\ [][pc = "returned" => NoGet(trace')]_vars

\* The first search found an anchor without href, the second found none, and
\* the link of the third is about to be fetched.
C17_Witness ==
    /\ pc = "link"
    /\ response = PageResponse([by_data_id |-> Anchor(None), by_text |-> NoAnchor,
                                by_class |-> Anchor(HrefByClass)])
    /\ download_url = HrefByClass

\* C18: when download_pdf has returned a failure the next step leaves no file
\* at the destination of the item.  An item whose destination holds a file
\* when the loop reaches it is settled in one step that changes no file, and
\* download_pdf is only ever started for a destination that holds none; so the
\* file the cleanup removes was written for this item.  No step changes a
\* file other than the destination of the download in progress.
C18_CleanupOnlyOwnFile ==
    /\ [][(pc = "returned" /\ ~ result.ok) =>
            /\ pc' = "loop"
            /\ ~ PathExists(files', output_path(abstract_id))]_vars
    /\ [][(AtItem /\ ItemId # None /\ PathExists(files, output_path(ItemId))) =>
            /\ files' = files
            /\ pc' = "loop"
            /\ i' = i + 1]_vars
    /\ [][(pc = "loop" /\ pc' # "loop" /\ pc' # "done") =>
            /\ pc' = "direct"
            /\ ~ PathExists(files, output_path(abstract_id'))]_vars
    /\ [][\A p \in DOMAIN files :
            (~ Downloading \/ p # Destination) =>
                PathExists(files', p) /\ files'[p] = files[p]]_vars

\* The link of the landing page gave an empty file, the item failed, and the
\* file is gone.
C18_Witness ==
    /\ pc = "loop"
    /\ i = 2
    /\ fail_count = 1
    /\ failed_downloads[1].error = ErrPageEmpty
    /\ ~ PathExists(files, output_path(failed_downloads[1].abstract_id))

\* C19: while an item is downloaded, at most MAX_RETRIES GETs of the direct
\* URL, one of the landing page and one of a link were made, MAX_RETRIES + 2
\* in all, and at most MAX_RETRIES - 1 sleeps were taken; outside of a download
\* no GET is made.  Every step of a run lowers a rank that is a natural
\* number, and a run that is not stopped reaches its end.
IsDirectGet(ev) == ev = Get(get_download_url(abstract_id))
IsPageGet(ev) == ev = Get(page_url(abstract_id))
IsLinkGet(ev) == IsGet(ev) /\ ~ IsDirectGet(ev) /\ ~ IsPageGet(ev)
IsSleep(ev) == ev.op = "sleep"

\* The steps one item can still take: two for each attempt left, one for the
\* landing page, one for the link, one for the return.
ItemRank ==
    CASE pc = "direct" -> 4 + 2 * (MAX_RETRIES - 1 - attempt)
      [] pc = "backoff" -> 3 + 2 * (MAX_RETRIES - 1 - attempt)
      [] pc = "page" -> 3
      [] pc = "link" -> 2
      [] pc = "returned" -> 1
      [] OTHER -> 0

ItemBudget == 2 * MAX_RETRIES + 3

Rank ==
    CASE pc = "start" -> 2 + Len(input_file.urls) * ItemBudget
      [] pc = "loop" -> 1 + (Len(urls) + 1 - i) * ItemBudget
      [] Downloading -> 1 + (Len(urls) - i) * ItemBudget + ItemRank
      [] OTHER -> 0

C19_BoundedRequestsAndEnd ==
    /\ [](Downloading =>
            /\ Len(SelectSeq(trace, IsDirectGet)) <= MAX_RETRIES
            /\ Len(SelectSeq(trace, IsPageGet)) <= 1
            /\ Len(SelectSeq(trace, IsLinkGet)) <= 1
            /\ Len(SelectSeq(trace, IsGet)) <= MAX_RETRIES + 2
            /\ Len(SelectSeq(trace, IsSleep)) <= MAX_RETRIES - 1)
    /\ [](~ Downloading => NoGet(trace))
    /\ [](Rank \in Nat)
    /\ [][Rank' < Rank]_vars
    /\ <>(pc = "done")

\* Every attempt raised and was retried, the landing page gave a link, and
\* the link was fetched: MAX_RETRIES + 2 GETs and MAX_RETRIES - 1 sleeps.
C19_Witness ==
    /\ pc = "returned"
    /\ Len(SelectSeq(trace, IsGet)) = MAX_RETRIES + 2
    /\ Len(SelectSeq(trace, IsSleep)) = MAX_RETRIES - 1

\* C20: the failure list always has fail_count records.  It only changes by
\* one record being appended, for the item at the position the loop is at,
\* while the loop moves to the next position; so it holds at most one record
\* for a position, and its URLs are those of a subsequence of the items
\* already passed, in the order of the input.  The log, when it is written,
\* holds the records of the list in the same order.
Embeds(short, long) ==
    \E f \in [1..Len(short) -> 1..Len(long)] :
        /\ \A k \in 1..Len(short) : short[k] = long[f[k]]
        /\ \A j, k \in 1..Len(short) : j < k => f[j] < f[k]

FailedUrls == [k \in 1..Len(failed_downloads) |-> failed_downloads[k].url]

C20_FailuresInInputOrder ==
    /\ [](Len(failed_downloads) = fail_count)
    /\ [](pc # "start" => Embeds(FailedUrls, SubSeq(urls, 1, i - 1)))
    /\ [][failed_downloads' # failed_downloads =>
            /\ Len(failed_downloads') = Len(failed_downloads) + 1
            /\ SubSeq(failed_downloads', 1, Len(failed_downloads)) = failed_downloads
            /\ failed_downloads'[Len(failed_downloads')].url = urls[i]
            /\ i' = i + 1]_vars
    /\ [][(pc # "start" /\ i' # i) => i' = i + 1]_vars
    /\ [][log_file' # log_file =>
            /\ pc' = "done"
            /\ json_load(log_file'.text) = failed_downloads]_vars

\* Two different URLs failed, the first for want of an identifier, the second
\* in its download, and the log holds their records in that order.
C20_Witness ==
    /\ pc = "done"
    /\ Len(urls) = 2
    /\ fail_count = 2
    /\ urls[1] # urls[2]
    /\ failed_downloads[1].url = urls[1]
    /\ failed_downloads[1].error = ErrNoId
    /\ failed_downloads[2].url = urls[2]
    /\ LogRecords = failed_downloads

====
